---------------------------- MODULE Spec2Model ----------------------------
(***************************************************************************)
(* Streaming response normalisation of templrjs-llm-chat-webui:            *)
(* createParser / POST of src/app/api/chat/route.js.                       *)
(*                                                                         *)
(* Text is a sequence of characters (one-character strings); the upstream  *)
(* body is a sequence of bytes.  An ASCII character is its own byte; the   *)
(* characters of MultiByte take several bytes each.                        *)
(***************************************************************************)
EXTENDS Integers, Sequences, FiniteSets, TLC

(***************************************************************************)
(* Characters and bytes: TextDecoder / TextEncoder (UTF-8).                *)
(***************************************************************************)
EAcute == "U+00E9"
Replacement == "U+FFFD"

\* The multi-byte characters of the model and their UTF-8 encodings.
MultiByte ==
  { [char |-> EAcute, bytes |-> <<"0xC3", "0xA9">>],
    [char |-> Replacement, bytes |-> <<"0xEF", "0xBF", "0xBD">>] }

NonAsciiBytes == UNION { { m.bytes[i] : i \in 1..Len(m.bytes) } : m \in MultiByte }

IsPrefix(p, q) == Len(p) <= Len(q) /\ SubSeq(q, 1, Len(p)) = p

\* Body applied to a value computed once: const value = ...; Body.
With(value, Body(_)) == Body(value)

\* The UTF-8 bytes of one character.
EncodeChar(ch) ==
  LET mb == { m \in MultiByte : m.char = ch }
  IN IF mb = {} THEN <<ch>> ELSE (CHOOSE m \in mb : TRUE).bytes

\* new TextEncoder().encode(text): every character to its UTF-8 bytes, in
\* order (computed by halves).
RECURSIVE Encode(_)
Encode(text) ==
  IF text = <<>> THEN <<>>
  ELSE IF Len(text) = 1 THEN EncodeChar(text[1])
  ELSE LET h == Len(text) \div 2
       IN Encode(SubSeq(text, 1, h)) \o Encode(SubSeq(text, h + 1, Len(text)))

\* One byte through a streaming UTF-8 decoder whose undecoded tail is
\* `pending`: [text, pending].  An incomplete valid sequence is kept, a
\* completed one yields its character, an invalid one yields U+FFFD.
DecodeByte(pending, b) ==
  LET cand == Append(pending, b)
      full == { m \in MultiByte : m.bytes = cand }
      part == { m \in MultiByte : IsPrefix(cand, m.bytes) }
      lead == { m \in MultiByte : m.bytes[1] = b }
  IN IF full # {} THEN [text |-> <<(CHOOSE m \in full : TRUE).char>>, pending |-> <<>>]
     ELSE IF part # {} THEN [text |-> <<>>, pending |-> cand]
     ELSE IF pending # <<>>
       THEN IF lead # {} THEN [text |-> <<Replacement>>, pending |-> <<b>>]
            ELSE IF b \in NonAsciiBytes
              THEN [text |-> <<Replacement, Replacement>>, pending |-> <<>>]
              ELSE [text |-> <<Replacement, b>>, pending |-> <<>>]
     ELSE IF b \in NonAsciiBytes THEN [text |-> <<Replacement>>, pending |-> <<>>]
     ELSE [text |-> <<b>>, pending |-> <<>>]

\* A run of bytes through the decoder one after the other, from the state
\* `pending` (computed by halves, the second half from the state the first
\* half leaves).
RECURSIVE DecodeBytes(_, _)
DecodeBytes(pending, chunk) ==
  IF chunk = <<>> THEN [text |-> <<>>, pending |-> pending]
  ELSE IF Len(chunk) = 1 THEN DecodeByte(pending, chunk[1])
  ELSE With(DecodeBytes(pending, SubSeq(chunk, 1, Len(chunk) \div 2)), LAMBDA left :
       With(DecodeBytes(left.pending, SubSeq(chunk, Len(chunk) \div 2 + 1, Len(chunk))), LAMBDA right :
         [text |-> left.text \o right.text, pending |-> right.pending]))

\* Decode as textDecoder.decode(chunk) without { stream: true } would be: the
\* decoder is flushed at the end of every chunk.
DecodeFlushing(pending, chunk) ==
  With(DecodeBytes(<<>>, chunk), LAMBDA r :
    [text |-> r.text \o (IF r.pending = <<>> THEN <<>> ELSE <<Replacement>>),
     pending |-> <<>>])

\* textDecoder.decode(chunk, { stream: true }): an incomplete sequence at the
\* end of the chunk is kept for the next call.
Decode(pending, chunk) == DecodeBytes(pending, chunk)

(***************************************************************************)
(* String operations used by parse.                                        *)
(***************************************************************************)
Newline == "\n"
WhiteSpace == {" ", "\t", "\r", "\n"}

\* text.split("\n"): the segments between newlines, at least one.  nl is the
\* set of positions of the newlines from `from` on.
RECURSIVE SplitAt(_, _, _)
SplitAt(text, from, nl) ==
  IF nl = {} THEN <<SubSeq(text, from, Len(text))>>
  ELSE LET i == CHOOSE k \in nl : \A j \in nl : k <= j
       IN <<SubSeq(text, from, i - 1)>> \o SplitAt(text, i + 1, nl \ {i})
Split(text) == SplitAt(text, 1, { i \in 1..Len(text) : text[i] = Newline })

\* The first position from i on that holds no white space.
RECURSIVE SkipWs(_, _)
SkipWs(s, i) == IF i <= Len(s) /\ s[i] \in WhiteSpace THEN SkipWs(s, i + 1) ELSE i

\* The last position up to i that holds no white space.
RECURSIVE SkipWsBack(_, _)
SkipWsBack(s, i) == IF i >= 1 /\ s[i] \in WhiteSpace THEN SkipWsBack(s, i - 1) ELSE i

\* Trim as a trim that takes nothing off would be.
TrimNothing(line) == line

\* line.trim()
Trim(line) == SubSeq(line, SkipWs(line, 1), SkipWsBack(line, Len(line)))

\* StartsWith as a test every line passes would be.
StartsWithAnything(line, prefix) == TRUE

\* line.startsWith(prefix)
StartsWith(line, prefix) == IsPrefix(prefix, line)

\* line.slice(n)
Slice(line, n) == SubSeq(line, n + 1, Len(line))

(***************************************************************************)
(* JSON values: JSON.parse and JSON.stringify.  A value is a tree          *)
(* [t, s, kids]: t its type, s the characters of a string or number, kids  *)
(* the members <<[k, v], ...>> of an object or the elements of an array    *)
(* (k empty).  "undefined" is JavaScript's undefined, never parsed.        *)
(***************************************************************************)
JUndefined == [t |-> "undefined", s |-> <<>>, kids |-> <<>>]
JNull == [t |-> "null", s |-> <<>>, kids |-> <<>>]
JStr(chars) == [t |-> "string", s |-> chars, kids |-> <<>>]
JNum(digits) == [t |-> "number", s |-> digits, kids |-> <<>>]
JObj(members) == [t |-> "object", s |-> <<>>, kids |-> members]
JArr(elements) == [t |-> "array", s |-> <<>>, kids |-> [i \in 1..Len(elements) |-> [k |-> <<>>, v |-> elements[i]]]]
Member(key, value) == [k |-> key, v |-> value]

Quote == "\""
Digits == {"0", "1", "2", "3", "4", "5", "6", "7", "8", "9"}
NullText == <<"n", "u", "l", "l">>

\* JSON.stringify(value)
RECURSIVE Stringify(_)
RECURSIVE StringifyKids(_, _)
Stringify(value) ==
  CASE value.t = "null"   -> NullText
    [] value.t = "string" -> <<Quote>> \o value.s \o <<Quote>>
    [] value.t = "number" -> value.s
    [] value.t = "object" -> <<"{">> \o StringifyKids(value.kids, TRUE) \o <<"}">>
    [] value.t = "array"  -> <<"[">> \o StringifyKids(value.kids, FALSE) \o <<"]">>
StringifyKids(kids, keyed) ==
  IF kids = <<>> THEN <<>>
  ELSE (IF keyed THEN <<Quote>> \o Head(kids).k \o <<Quote, ":">> ELSE <<>>)
       \o Stringify(Head(kids).v)
       \o (IF Len(kids) > 1 THEN <<",">> ELSE <<>>)
       \o StringifyKids(Tail(kids), keyed)

SyntaxError == [ok |-> FALSE, v |-> JUndefined, next |-> 0]
Parsed(value, next) == [ok |-> TRUE, v |-> value, next |-> next]

\* The end of the run of characters of `set` that starts at i.
RECURSIVE RunEnd(_, _, _)
RunEnd(s, i, set) == IF i <= Len(s) /\ s[i] \in set THEN RunEnd(s, i + 1, set) ELSE i

\* The position of the first quote from i on, Len(s) + 1 when there is none.
RECURSIVE FindQuote(_, _)
FindQuote(s, i) == IF i <= Len(s) /\ s[i] # Quote THEN FindQuote(s, i + 1) ELSE i

\* A string literal at i (escape sequences are outside the alphabet).
ParseString(s, i) ==
  IF i > Len(s) \/ s[i] # Quote THEN SyntaxError
  ELSE With(FindQuote(s, i + 1), LAMBDA j :
         IF j > Len(s) THEN SyntaxError
         ELSE Parsed(JStr(SubSeq(s, i + 1, j - 1)), j + 1))

RECURSIVE ParseValue(_, _)
RECURSIVE ParseMembers(_, _, _)
RECURSIVE ParseElements(_, _, _)
\* One JSON value starting at position i of s.
ParseValue(s, i0) ==
  With(SkipWs(s, i0), LAMBDA i :
    IF i > Len(s) THEN SyntaxError
    ELSE IF s[i] = Quote THEN ParseString(s, i)
    ELSE IF s[i] = "{" THEN
      With(SkipWs(s, i + 1), LAMBDA j :
        IF j <= Len(s) /\ s[j] = "}" THEN Parsed(JObj(<<>>), j + 1)
        ELSE ParseMembers(s, i + 1, <<>>))
    ELSE IF s[i] = "[" THEN
      With(SkipWs(s, i + 1), LAMBDA j :
        IF j <= Len(s) /\ s[j] = "]" THEN Parsed(JArr(<<>>), j + 1)
        ELSE ParseElements(s, i + 1, <<>>))
    ELSE IF s[i] \in Digits THEN
      With(RunEnd(s, i, Digits), LAMBDA j : Parsed(JNum(SubSeq(s, i, j - 1)), j))
    ELSE IF i + 3 <= Len(s) /\ SubSeq(s, i, i + 3) = NullText THEN Parsed(JNull, i + 4)
    ELSE SyntaxError)
\* The members of an object from position i0 on, after those of `acc`.
ParseMembers(s, i0, acc) ==
  With(ParseString(s, SkipWs(s, i0)), LAMBDA key :
    IF ~key.ok THEN SyntaxError
    ELSE With(SkipWs(s, key.next), LAMBDA c :
      IF c > Len(s) \/ s[c] # ":" THEN SyntaxError
      ELSE With(ParseValue(s, c + 1), LAMBDA val :
        IF ~val.ok THEN SyntaxError
        ELSE With(SkipWs(s, val.next), LAMBDA e :
          With(Append(acc, Member(key.v.s, val.v)), LAMBDA all :
            IF e > Len(s) THEN SyntaxError
            ELSE IF s[e] = "}" THEN Parsed(JObj(all), e + 1)
            ELSE IF s[e] = "," THEN ParseMembers(s, e + 1, all)
            ELSE SyntaxError)))))
\* The elements of an array from position i0 on, after those of `acc`.
ParseElements(s, i0, acc) ==
  With(ParseValue(s, i0), LAMBDA val :
    IF ~val.ok THEN SyntaxError
    ELSE With(SkipWs(s, val.next), LAMBDA e :
      With(Append(acc, val.v), LAMBDA all :
        IF e > Len(s) THEN SyntaxError
        ELSE IF s[e] = "]" THEN Parsed(JArr(all), e + 1)
        ELSE IF s[e] = "," THEN ParseElements(s, e + 1, all)
        ELSE SyntaxError)))

\* JSON.parse(text): [ok, v]; ok is FALSE where JSON.parse throws SyntaxError.
JsonParse(text) ==
  With(ParseValue(text, 1), LAMBDA r :
    IF r.ok /\ SkipWs(text, r.next) = Len(text) + 1
      THEN [ok |-> TRUE, v |-> r.v]
      ELSE [ok |-> FALSE, v |-> JUndefined])

(***************************************************************************)
(* JavaScript expressions of parse: property access, ?., ||, if (x).       *)
(***************************************************************************)
Nullish(v) == v.t \in {"undefined", "null"}

\* v.key for a v that is neither null nor undefined.
Prop(v, key) ==
  LET hits == { i \in 1..Len(v.kids) : v.kids[i].k = key }
  IN IF v.t = "object" /\ hits # {}
       THEN v.kids[CHOOSE i \in hits : \A j \in hits : j <= i].v
       ELSE JUndefined

\* v?.key
OptProp(v, key) == IF Nullish(v) THEN JUndefined ELSE Prop(v, key)

\* v?.[0]
OptFirst(v) ==
  IF Nullish(v) THEN JUndefined
  ELSE IF v.t = "array" THEN (IF v.kids = <<>> THEN JUndefined ELSE v.kids[1].v)
  ELSE IF v.t = "string" THEN (IF v.s = <<>> THEN JUndefined ELSE JStr(<<v.s[1]>>))
  ELSE Prop(v, <<"0">>)

\* ToBoolean(v)
Truthy(v) ==
  CASE v.t \in {"undefined", "null"} -> FALSE
    [] v.t = "string" -> v.s # <<>>
    [] v.t = "number" -> \E i \in 1..Len(v.s) : v.s[i] # "0"
    [] OTHER -> TRUE

\* a || b
Or(a, b) == IF Truthy(a) THEN a ELSE b

\* JsToString(v), as TextEncoder.encode applies it to its argument.
RECURSIVE JsToString(_)
RECURSIVE JoinKids(_)
JsToString(v) ==
  CASE v.t \in {"string", "number"} -> v.s
    [] v.t = "object" -> <<"[", "o", "b", "j", "e", "c", "t", " ", "O", "b", "j", "e", "c", "t", "]">>
    [] v.t = "array" -> JoinKids(v.kids)
    [] v.t = "null" -> NullText
    [] OTHER -> <<"u", "n", "d", "e", "f", "i", "n", "e", "d">>
JoinKids(kids) ==
  IF kids = <<>> THEN <<>>
  ELSE (IF Nullish(Head(kids).v) THEN <<>> ELSE JsToString(Head(kids).v))
       \o (IF Len(kids) > 1 THEN <<",">> ELSE <<>>)
       \o JoinKids(Tail(kids))

KeyChoices == <<"c", "h", "o", "i", "c", "e", "s">>
KeyDelta == <<"d", "e", "l", "t", "a">>
KeyContent == <<"c", "o", "n", "t", "e", "n", "t">>
KeyMessage == <<"m", "e", "s", "s", "a", "g", "e">>
KeyResponse == <<"r", "e", "s", "p", "o", "n", "s", "e">>
KeyRole == <<"r", "o", "l", "e">>

(***************************************************************************)
(* createParser(textDecoder, controller) and the parse it returns.         *)
(***************************************************************************)
DataPrefix == <<"d", "a", "t", "a", ":", " ">>
DoneLine == <<"d", "a", "t", "a", ":", " ", "[", "D", "O", "N", "E", "]">>

\* let buffer = "", with the fresh TextDecoder the parser is given.
NewParser == [buffer |-> <<>>, pending |-> <<>>]

\* ExtractContent as the same fallback tried in the opposite order would be.
ExtractContentResponseFirst(data) ==
  Or(Or(Or(Prop(data, KeyResponse),
           OptProp(Prop(data, KeyMessage), KeyContent)),
        OptProp(OptProp(OptFirst(Prop(data, KeyChoices)), KeyDelta), KeyContent)),
     JStr(<<>>))

\* data.choices?.[0]?.delta?.content || data.message?.content || data.response || ""
\* for a data that is neither null nor undefined.
ExtractContent(data) ==
  Or(Or(Or(OptProp(OptProp(OptFirst(Prop(data, KeyChoices)), KeyDelta), KeyContent),
           OptProp(Prop(data, KeyMessage), KeyContent)),
        Prop(data, KeyResponse)),
     JStr(<<>>))

\* The body of the try block for one data line: [threw, enq], enq the chunks
\* handed to controller.enqueue.  JSON.parse throws on malformed text, the
\* property access throws on null, enqueue throws when the stream takes no
\* more chunks.
TryBody(trimmedLine, canEnqueue) ==
  With(JsonParse(Slice(trimmedLine, 6)), LAMBDA parsed :
    IF ~parsed.ok \/ Nullish(parsed.v) THEN [threw |-> TRUE, enq |-> <<>>]
    ELSE With(ExtractContent(parsed.v), LAMBDA content :
      IF ~Truthy(content) THEN [threw |-> FALSE, enq |-> <<>>]
      ELSE IF ~canEnqueue THEN [threw |-> TRUE, enq |-> <<>>]
      ELSE [threw |-> FALSE, enq |-> <<Encode(JsToString(content))>>]))

\* TryCatch as the try block without its catch would be.
TryRethrow(r) == [enq |-> r.enq, logged |-> 0, escaped |-> r.threw]

\* try { ... } catch (error) { console.error(...) }: the exception is logged
\* and goes no further.
TryCatch(r) == [enq |-> r.enq, logged |-> IF r.threw THEN 1 ELSE 0, escaped |-> FALSE]

\* One more line taken up by the loop.
Counted(r) == [r EXCEPT !.seen = @ + 1]

\* ProcessLines as a loop that hands the chunks over newest first would be.
RECURSIVE ProcessLinesNewestFirst(_, _)
ProcessLinesNewestFirst(lines, canEnqueue) ==
  IF lines = <<>>
    THEN [enq |-> <<>>, done |-> FALSE, logged |-> 0, escaped |-> FALSE, seen |-> 0]
  ELSE With(Trim(Head(lines)), LAMBDA trimmedLine :
         IF trimmedLine = <<>> THEN Counted(ProcessLinesNewestFirst(Tail(lines), canEnqueue))
         ELSE IF trimmedLine = DoneLine
           THEN [enq |-> <<>>, done |-> TRUE, logged |-> 0, escaped |-> FALSE, seen |-> 1]
         ELSE IF StartsWith(trimmedLine, DataPrefix)
           THEN With(TryCatch(TryBody(trimmedLine, canEnqueue)), LAMBDA one :
                With(ProcessLinesNewestFirst(Tail(lines), canEnqueue), LAMBDA rest :
                  [enq |-> rest.enq \o one.enq, done |-> rest.done,
                   logged |-> one.logged + rest.logged, escaped |-> rest.escaped,
                   seen |-> 1 + rest.seen]))
         ELSE Counted(ProcessLinesNewestFirst(Tail(lines), canEnqueue)))

\* ProcessLines as a loop that gives up at the first logged error would be.
RECURSIVE ProcessLinesStoppingAtError(_, _)
ProcessLinesStoppingAtError(lines, canEnqueue) ==
  IF lines = <<>>
    THEN [enq |-> <<>>, done |-> FALSE, logged |-> 0, escaped |-> FALSE, seen |-> 0]
  ELSE With(Trim(Head(lines)), LAMBDA trimmedLine :
         IF trimmedLine = <<>> THEN Counted(ProcessLinesStoppingAtError(Tail(lines), canEnqueue))
         ELSE IF trimmedLine = DoneLine
           THEN [enq |-> <<>>, done |-> TRUE, logged |-> 0, escaped |-> FALSE, seen |-> 1]
         ELSE IF StartsWith(trimmedLine, DataPrefix)
           THEN With(TryCatch(TryBody(trimmedLine, canEnqueue)), LAMBDA one :
                  IF one.escaped \/ one.logged > 0
                    THEN [enq |-> one.enq, done |-> FALSE, logged |-> one.logged,
                          escaped |-> one.escaped, seen |-> 1]
                    ELSE With(ProcessLinesStoppingAtError(Tail(lines), canEnqueue), LAMBDA rest :
                           [enq |-> one.enq \o rest.enq, done |-> rest.done,
                            logged |-> one.logged + rest.logged, escaped |-> rest.escaped,
                            seen |-> 1 + rest.seen]))
         ELSE Counted(ProcessLinesStoppingAtError(Tail(lines), canEnqueue)))

\* The for loop over the complete lines: [enq, done, logged, escaped, seen],
\* done when the loop returned at the sentinel, seen the number of lines it
\* took up.
RECURSIVE ProcessLines(_, _)
ProcessLines(lines, canEnqueue) ==
  IF lines = <<>>
    THEN [enq |-> <<>>, done |-> FALSE, logged |-> 0, escaped |-> FALSE, seen |-> 0]
  ELSE With(Trim(Head(lines)), LAMBDA trimmedLine :
         IF trimmedLine = <<>> THEN Counted(ProcessLines(Tail(lines), canEnqueue))
         ELSE IF trimmedLine = DoneLine
           THEN [enq |-> <<>>, done |-> TRUE, logged |-> 0, escaped |-> FALSE, seen |-> 1]
         ELSE IF StartsWith(trimmedLine, DataPrefix)
           THEN With(TryCatch(TryBody(trimmedLine, canEnqueue)), LAMBDA one :
                  IF one.escaped
                    THEN [enq |-> one.enq, done |-> FALSE, logged |-> one.logged,
                          escaped |-> TRUE, seen |-> 1]
                    ELSE With(ProcessLines(Tail(lines), canEnqueue), LAMBDA rest :
                           [enq |-> one.enq \o rest.enq, done |-> rest.done,
                            logged |-> one.logged + rest.logged, escaped |-> rest.escaped,
                            seen |-> 1 + rest.seen]))
         ELSE Counted(ProcessLines(Tail(lines), canEnqueue)))

\* Parse as a parse that keeps the whole text, not its last line, would be.
ParseKeepingWholeText(p, chunk, canEnqueue) ==
  With(Decode(p.pending, chunk), LAMBDA decoded :
    With(Split(p.buffer \o decoded.text), LAMBDA lines :
      With(ProcessLines(SubSeq(lines, 1, Len(lines) - 1), canEnqueue), LAMBDA run :
        [buffer |-> p.buffer \o decoded.text, pending |-> decoded.pending,
         enq |-> run.enq, done |-> run.done, logged |-> run.logged, escaped |-> run.escaped,
         seen |-> run.seen])))

\* parse(chunk) on the parser state p: the new buffer and decoder state and
\* what the call did.
Parse(p, chunk, canEnqueue) ==
  With(Decode(p.pending, chunk), LAMBDA decoded :
    With(Split(p.buffer \o decoded.text), LAMBDA lines :
      With(ProcessLines(SubSeq(lines, 1, Len(lines) - 1), canEnqueue), LAMBDA run :
        [buffer |-> lines[Len(lines)], pending |-> decoded.pending,
         enq |-> run.enq, done |-> run.done, logged |-> run.logged, escaped |-> run.escaped,
         seen |-> run.seen])))

(***************************************************************************)
(* The upstream body: the frames a provider sends.  A frame is one line.   *)
(* A data frame carries an object whose three content fields are each      *)
(* absent, hollow (the container is there, the text is not) or set to a    *)
(* text (which may be empty).                                              *)
(***************************************************************************)
Absent == [st |-> "absent", text |-> <<>>]
Hollow == [st |-> "hollow", text |-> <<>>]
Set(text) == [st |-> "set", text |-> text]

LF == <<"\n">>
CRLF == <<"\r", "\n">>

\* The object of a data frame: choices[0].delta.content from a,
\* message.content from b, response from c; a frame with none of them
\* carries the role alone.
Payload(f) ==
  LET choices ==
        IF f.a.st = "absent" THEN <<>>
        ELSE <<Member(KeyChoices, JArr(<<JObj(<<Member(KeyDelta,
                 JObj(IF f.a.st = "hollow" THEN <<>>
                      ELSE <<Member(KeyContent, JStr(f.a.text))>>))>>)>>))>>
      message ==
        IF f.b.st = "absent" THEN <<>>
        ELSE <<Member(KeyMessage,
                 JObj(IF f.b.st = "hollow" THEN <<>>
                      ELSE <<Member(KeyContent, JStr(f.b.text))>>))>>
      response ==
        IF f.c.st = "absent" THEN <<>>
        ELSE <<Member(KeyResponse, IF f.c.st = "hollow" THEN JNull ELSE JStr(f.c.text))>>
      all == choices \o message \o response
  IN JObj(IF all = <<>> THEN <<Member(KeyRole, JStr(<<"a">>))>> ELSE all)

MalformedPayload == <<"{", "n", "o", "t", " ", "v", "a", "l", "i", "d", " ", "j", "s", "o", "n">>
CommentText == <<":", " ", "p", "i", "n", "g">>
EventText == <<"e", "v", "e", "n", "t", ":", " ", "m">>

\* The characters of one frame on the wire, its line end included.
FrameText(f) ==
  (CASE f.kind = "data"      -> DataPrefix \o Stringify(Payload(f))
     [] f.kind = "bare"      -> Stringify(Payload(f))
     [] f.kind = "malformed" -> DataPrefix \o MalformedPayload
     [] f.kind = "null"      -> DataPrefix \o NullText
     [] f.kind = "number"    -> DataPrefix \o <<"7">>
     [] f.kind = "text"      -> DataPrefix \o <<Quote, "x", Quote>>
     [] f.kind = "array"     -> DataPrefix \o <<"[", "7", "]">>
     [] f.kind = "done"      -> DoneLine
     [] f.kind = "comment"   -> CommentText
     [] f.kind = "event"     -> EventText
     [] f.kind = "blank"     -> <<>>) \o f.eol

RECURSIVE BodyText(_)
BodyText(fs) == IF fs = <<>> THEN <<>> ELSE FrameText(Head(fs)) \o BodyText(Tail(fs))

\* The bytes of an upstream body.
Wire(fs) == Encode(BodyText(fs))

Frame(kind, a, b, c, eol) == [kind |-> kind, a |-> a, b |-> b, c |-> c, eol |-> eol]
DataFrame(a, b, c) == Frame("data", a, b, c, LF)
DoneFrame == Frame("done", Absent, Absent, Absent, LF)
BlankFrame == Frame("blank", Absent, Absent, Absent, LF)
MalformedFrame == Frame("malformed", Absent, Absent, Absent, LF)

(***************************************************************************)
(* State.  A session is one chat request (one call of POST).               *)
(***************************************************************************)
Sessions == {1, 2}
Providers == {"ollama", "cloudflare"}

VARIABLES
  provider,       \* process.env.NEXT_PUBLIC_DEFAULT_PROVIDER || "ollama"
  contextInjection, \* CONFIG.CONTEXT_INJECTION
  request,        \* per session: the body of the chat request: messages, systemPrompt
  forwarded,      \* per session: the messages POST has put into its upstream fetch
  tags,           \* what the local server answers to GET /api/tags
  models,         \* what GET /api/models has returned last
  frames,         \* per session: the frames its upstream body consists of
  wire,           \* per session: the bytes of that body
  sent,           \* per session: how many of them transform has been given
  pc,             \* per session: "absent", "pending", "streaming", "responded"
  req,            \* per session: what the request asked for and what fetch gave
  response,       \* per session: what POST returned
  upstream,       \* per session: response.body: "none", "open", "closed", "errored",
                  \* "cancelled"
  parsers,        \* per parser: buffer and decoder state of a createParser closure
  outState,       \* per session: readable side of transformStream
  closeRequested, \* per session: the readable side closes once its queue is read
  outQueue,       \* per session: chunks enqueued and not yet read
  readPending,    \* per session: the consumer waits for a chunk
  delivered,      \* per session: chunks the consumer has read
  consumer,       \* per session: "reading", "done" (saw the close), "error",
                  \* "cancelled" (gave the stream up)
  emitted,        \* per session: every chunk handed to controller.enqueue so far
  sentinelSeen,   \* per session: parse has returned at a "data: [DONE]" line
  logged,         \* per session: how often parse has logged a caught exception
  dispatched,     \* per session: how many lines the for loop of parse has taken up
  alone           \* per session: the parser and output of the same calls made
                  \* on a parser nothing else touches

vars == <<provider, contextInjection, request, forwarded, tags, models,
          frames, wire, sent, pc, req, response, upstream, parsers, outState,
          closeRequested, outQueue, readPending, delivered, consumer, emitted,
          sentinelSeen, logged, dispatched, alone>>

\* What a fetch of a JSON endpoint gives: the outcome of fetch, whether
\* response.json() can parse the body, and the parsed body.
Reply(fetched, valid, data) == [fetched |-> fetched, valid |-> valid, data |-> data]
NoReply == Reply("none", FALSE, JUndefined)
NoRequest == [stream |-> FALSE, fetched |-> "none", body |-> JUndefined, search |-> NoReply]
\* { role, content }
Message(role, content) == [role |-> role, content |-> content]
\* The body of a chat request: one question, no system prompt.
PlainRequest == [messages |-> <<Message("user", JStr(<<"q">>))>>, systemPrompt |-> JUndefined]
NotForwarded == [made |-> FALSE, messages |-> <<>>]
NoModels == [kind |-> "none", status |-> 0, models |-> JUndefined]
NoResponse == [kind |-> "none", status |-> 0, error |-> FALSE, content |-> JUndefined]

\* ParserOf as one parser created once and used by every request would be.
ParserShared(s) == 1

\* this.parser of session s: start() gives every transformStream a parser
\* of its own.
ParserOf(s) == s

\* The state every specification starts from, given the upstream bodies:
\* body[s] = <<>> with requests[s] FALSE is a session that never happens.
InitChat(prov, body, requests, injection, asked) ==
  /\ provider = prov
  /\ contextInjection = injection
  /\ request = asked
  /\ forwarded = [s \in Sessions |-> NotForwarded]
  /\ tags = NoReply
  /\ models = NoModels
  /\ frames = body
  /\ wire = [s \in Sessions |-> Wire(body[s])]
  /\ sent = [s \in Sessions |-> 0]
  /\ pc = [s \in Sessions |-> IF requests[s] THEN "pending" ELSE "absent"]
  /\ req = [s \in Sessions |-> NoRequest]
  /\ response = [s \in Sessions |-> NoResponse]
  /\ upstream = [s \in Sessions |-> "none"]
  /\ parsers = [s \in Sessions |-> NewParser]
  /\ outState = [s \in Sessions |-> "none"]
  /\ closeRequested = [s \in Sessions |-> FALSE]
  /\ outQueue = [s \in Sessions |-> <<>>]
  /\ readPending = [s \in Sessions |-> FALSE]
  /\ delivered = [s \in Sessions |-> <<>>]
  /\ consumer = [s \in Sessions |-> "reading"]
  /\ emitted = [s \in Sessions |-> <<>>]
  /\ sentinelSeen = [s \in Sessions |-> FALSE]
  /\ logged = [s \in Sessions |-> 0]
  /\ dispatched = [s \in Sessions |-> 0]
  /\ alone = [s \in Sessions |-> [parser |-> NewParser, emitted |-> <<>>]]

\* The same with context injection off and the plain request in every session.
InitWith(prov, body, requests) ==
  InitChat(prov, body, requests, FALSE, [s \in Sessions |-> PlainRequest])

(***************************************************************************)
(* POST(req)                                                               *)
(***************************************************************************)
\* v.key as JavaScript evaluates it: [threw, v], a TypeError when v is null
\* or undefined.
Access(r, key) ==
  IF r.threw \/ Nullish(r.v) THEN [threw |-> TRUE, v |-> JUndefined]
  ELSE [threw |-> FALSE, v |-> Prop(r.v, key)]
\* v[0]
AccessFirst(r) ==
  IF r.threw \/ Nullish(r.v) THEN [threw |-> TRUE, v |-> JUndefined]
  ELSE [threw |-> FALSE, v |-> OptFirst(r.v)]
Value(v) == [threw |-> FALSE, v |-> v]

\* data.message.content
OllamaContent(data) == Access(Access(Value(data), KeyMessage), KeyContent)
\* CloudflareContent as the streaming extractor's first case would read it:
\* data.choices[0].delta.content
CloudflareContentFromDelta(data) ==
  Access(Access(AccessFirst(Access(Value(data), KeyChoices)), KeyDelta), KeyContent)

\* data.choices[0].message.content
CloudflareContent(data) ==
  Access(Access(AccessFirst(Access(Value(data), KeyChoices)), KeyMessage), KeyContent)

KeyContext == <<"c", "o", "n", "t", "e", "x", "t">>
ContextPrefix ==
  <<"A", "d", "d", "i", "t", "i", "o", "n", "a", "l", " ",
    "c", "o", "n", "t", "e", "x", "t", ":", " ">>

\* The try block of performSemanticSearch: [threw, v]. A rejected fetch,
\* the throw on !response.ok, a body response.json() cannot parse and a
\* body that is null all throw; otherwise data.context || "".
SearchTry(reply) ==
  IF reply.fetched # "ok" \/ ~reply.valid THEN [threw |-> TRUE, v |-> JUndefined]
  ELSE With(Access(Value(reply.data), KeyContext),
            LAMBDA got : IF got.threw THEN got ELSE Value(Or(got.v, JStr(<<>>))))

\* PerformSemanticSearch as a catch returning the error's text would be.
PerformSemanticSearchReturningError(reply) ==
  With(SearchTry(reply), LAMBDA r : IF r.threw THEN JStr(<<"e">>) ELSE r.v)

\* performSemanticSearch(query): the catch returns "".
PerformSemanticSearch(reply) ==
  With(SearchTry(reply), LAMBDA r : IF r.threw THEN JStr(<<>>) ELSE r.v)

\* ContextEnhancedMessages as an append of the context message would be.
ContextEnhancedMessagesAppending(messages, additionalContext) ==
  IF Truthy(additionalContext)
    THEN messages
         \o <<Message("system", JStr(ContextPrefix \o JsToString(additionalContext)))>>
    ELSE messages

\* contextEnhancedMessages: [...messages.slice(0, -1), { role: "system",
\* content: `Additional context: ${additionalContext}` }, messages[last]]
ContextEnhancedMessages(messages, additionalContext) ==
  IF Truthy(additionalContext)
    THEN SubSeq(messages, 1, Len(messages) - 1)
         \o <<Message("system", JStr(ContextPrefix \o JsToString(additionalContext)))>>
         \o <<messages[Len(messages)]>>
    ELSE messages

\* finalMessages
FinalMessages(messages, systemPrompt, additionalContext) ==
  With(ContextEnhancedMessages(messages, additionalContext),
       LAMBDA enhanced : IF Truthy(systemPrompt)
                           THEN <<Message("system", systemPrompt)>> \o enhanced
                           ELSE enhanced)

\* The catch of POST: NextResponse.json({ error, details }, { status: 500 })
ErrorResponse == [kind |-> "json", status |-> 500, error |-> TRUE, content |-> JUndefined]
\* NextResponse.json({ content })
ContentResponse(v) == [kind |-> "json", status |-> 200, error |-> FALSE, content |-> v]
\* new StreamingTextResponse(response.body.pipeThrough(transformStream))
StreamResponse == [kind |-> "stream", status |-> 200, error |-> FALSE, content |-> JUndefined]

\* Bodies of a non-streaming upstream reply: the local server's, the cloud
\* gateway's, one with neither shape, one whose choice carries a delta beside
\* its message, one whose choice carries a delta alone, and one whose message
\* has no content.
NonStreamBodies ==
  { JObj(<<Member(KeyMessage, JObj(<<Member(KeyContent, JStr(<<"B">>))>>))>>),
    JObj(<<Member(KeyChoices, JArr(<<JObj(<<Member(KeyMessage,
             JObj(<<Member(KeyContent, JStr(<<"C">>))>>))>>)>>))>>),
    JObj(<<Member(KeyRole, JStr(<<"a">>))>>),
    JObj(<<Member(KeyChoices, JArr(<<JObj(<<
             Member(KeyDelta, JObj(<<Member(KeyContent, JStr(<<"A">>))>>)),
             Member(KeyMessage, JObj(<<Member(KeyContent, JStr(<<"C">>))>>))>>)>>))>>),
    JObj(<<Member(KeyChoices, JArr(<<JObj(<<
             Member(KeyDelta, JObj(<<Member(KeyContent, JStr(<<"A">>))>>))>>)>>))>>),
    JObj(<<Member(KeyMessage, JObj(<<Member(KeyRole, JStr(<<"a">>))>>))>>) }

\* What fetch gives: a success status, a non-success status, or a rejection.
FetchOutcomes == {"ok", "notok", "rejected"}

\* Bodies the search service may answer with: a context, a context that is
\* a number, an empty context, no context, and null.
SearchData ==
  { JObj(<<Member(KeyContext, JStr(<<"X">>))>>),
    JObj(<<Member(KeyContext, JNum(<<"7">>))>>),
    JObj(<<Member(KeyContext, JStr(<<>>))>>),
    JObj(<<Member(KeyRole, JStr(<<"a">>))>>),
    JNull }
SearchReplies ==
  { Reply("rejected", FALSE, JUndefined), Reply("notok", FALSE, JUndefined),
    Reply("ok", FALSE, JUndefined) }
  \cup { Reply("ok", TRUE, data) : data \in SearchData }

\* The streaming branch is taken: start() creates the parser, the upstream
\* body is piped through the transform stream and the response returned.
StartStream(s) ==
  /\ parsers' = [parsers EXCEPT ![ParserOf(s)] = NewParser]
  /\ response' = [response EXCEPT ![s] = StreamResponse]
  /\ upstream' = [upstream EXCEPT ![s] = "open"]
  /\ outState' = [outState EXCEPT ![s] = "readable"]
  /\ pc' = [pc EXCEPT ![s] = "streaming"]

\* POST returns a JSON response r; no stream comes to exist.
ReturnJson(s, r) ==
  /\ response' = [response EXCEPT ![s] = r]
  /\ pc' = [pc EXCEPT ![s] = "responded"]
  /\ UNCHANGED <<parsers, upstream, outState>>

\* The branch provider === "ollama": a rejected fetch and the throw on
\* !response.ok end in the catch of POST.
OllamaBranch(s, fetched, stream, body) ==
  IF fetched # "ok" THEN ReturnJson(s, ErrorResponse)
  ELSE IF stream THEN StartStream(s)
  ELSE LET got == OllamaContent(body)
       IN ReturnJson(s, IF got.threw THEN ErrorResponse ELSE ContentResponse(got.v))

\* CloudflareBranch as the branch without its response.ok check would be.
CloudflareBranchIgnoringStatus(s, fetched, stream, body) ==
  IF fetched = "rejected" THEN ReturnJson(s, ErrorResponse)
  ELSE IF stream THEN StartStream(s)
  ELSE LET got == CloudflareContent(body)
       IN ReturnJson(s, IF got.threw THEN ErrorResponse ELSE ContentResponse(got.v))

\* The else branch (the cloud gateway).
CloudflareBranch(s, fetched, stream, body) ==
  IF fetched # "ok" THEN ReturnJson(s, ErrorResponse)
  ELSE IF stream THEN StartStream(s)
  ELSE LET got == CloudflareContent(body)
       IN ReturnJson(s, IF got.threw THEN ErrorResponse ELSE ContentResponse(got.v))

\* One call of POST up to its return, for a request with the given stream
\* flag and an upstream that answers as `fetched` (with `body` when the reply
\* is not streamed).
Post(s) ==
  /\ pc[s] = "pending"
  /\ IF contextInjection /\ request[s].messages = <<>>
       THEN \* messages[messages.length - 1].content throws a TypeError
            /\ ReturnJson(s, ErrorResponse)
            /\ UNCHANGED <<req, forwarded>>
       ELSE \E reply \in (IF contextInjection THEN SearchReplies ELSE {NoReply}),
               fetched \in FetchOutcomes, stream \in BOOLEAN, body \in NonStreamBodies :
              /\ req' = [req EXCEPT ![s] =
                           [stream |-> stream, fetched |-> fetched,
                            body |-> IF stream THEN JUndefined ELSE body,
                            search |-> reply]]
              /\ forwarded' = [forwarded EXCEPT ![s] =
                   [made |-> TRUE,
                    messages |-> FinalMessages(request[s].messages, request[s].systemPrompt,
                                   IF contextInjection THEN PerformSemanticSearch(reply)
                                                       ELSE JStr(<<>>))]]
              /\ IF provider = "ollama"
                   THEN OllamaBranch(s, fetched, stream, body)
                   ELSE CloudflareBranch(s, fetched, stream, body)
  /\ UNCHANGED <<provider, contextInjection, request, tags, models,
                 frames, wire, sent, closeRequested, outQueue, readPending,
                 delivered, consumer, emitted, sentinelSeen, logged, dispatched, alone>>

(***************************************************************************)
(* The pipe: response.body.pipeThrough(transformStream), read by the       *)
(* consumer of the response.                                               *)
(***************************************************************************)
\* transform(chunk, controller) { this.parser(chunk) } for the next n bytes
\* of the upstream body.  The readable side has a high-water mark of 0, so
\* transform runs only while a read is waiting; the first chunk enqueued
\* answers that read and the others queue up.
Transform(s, n) ==
  /\ pc[s] = "streaming" /\ upstream[s] = "open" /\ outState[s] = "readable"
  /\ readPending[s] /\ outQueue[s] = <<>>
  /\ sent[s] + n <= Len(wire[s])
  /\ \E r    \in {Parse(parsers[ParserOf(s)], SubSeq(wire[s], sent[s] + 1, sent[s] + n), TRUE)},
        solo \in {Parse(alone[s].parser, SubSeq(wire[s], sent[s] + 1, sent[s] + n), TRUE)} :
        /\ parsers' = [parsers EXCEPT ![ParserOf(s)] =
                         [buffer |-> r.buffer, pending |-> r.pending]]
        /\ sent' = [sent EXCEPT ![s] = sent[s] + n]
        /\ emitted' = [emitted EXCEPT ![s] = emitted[s] \o r.enq]
        /\ sentinelSeen' = [sentinelSeen EXCEPT ![s] = sentinelSeen[s] \/ r.done]
        /\ logged' = [logged EXCEPT ![s] = logged[s] + r.logged]
        /\ dispatched' = [dispatched EXCEPT ![s] = dispatched[s] + r.seen]
        /\ alone' = [alone EXCEPT ![s] =
                       [parser |-> [buffer |-> solo.buffer, pending |-> solo.pending],
                        emitted |-> alone[s].emitted \o solo.enq]]
        /\ IF r.escaped
             THEN \* an exception out of transform errors the stream
                  /\ outState' = [outState EXCEPT ![s] = "errored"]
                  /\ outQueue' = [outQueue EXCEPT ![s] = <<>>]
                  /\ readPending' = [readPending EXCEPT ![s] = FALSE]
                  /\ consumer' = [consumer EXCEPT ![s] = "error"]
                  /\ UNCHANGED delivered
             ELSE /\ delivered' = [delivered EXCEPT ![s] =
                        IF r.enq = <<>> THEN delivered[s] ELSE Append(delivered[s], Head(r.enq))]
                  /\ outQueue' = [outQueue EXCEPT ![s] =
                        IF r.enq = <<>> THEN <<>> ELSE Tail(r.enq)]
                  /\ readPending' = [readPending EXCEPT ![s] = r.enq = <<>>]
                  /\ UNCHANGED <<outState, consumer>>
  /\ UNCHANGED <<provider, contextInjection, request, forwarded, tags, models,
                 frames, wire, pc, req, response, upstream, closeRequested>>

\* UpstreamEnd as the end of a transform stream whose flush() hands what the
\* parser has kept to the loop as a last line would be.
UpstreamEndFlushing(s) ==
  /\ pc[s] = "streaming" /\ upstream[s] = "open" /\ outState[s] = "readable"
  /\ sent[s] = Len(wire[s])
  /\ upstream' = [upstream EXCEPT ![s] = "closed"]
  /\ closeRequested' = [closeRequested EXCEPT ![s] = TRUE]
  /\ \E r \in {ProcessLines(<<parsers[ParserOf(s)].buffer>>, TRUE)} :
       /\ emitted' = [emitted EXCEPT ![s] = @ \o r.enq]
       /\ outQueue' = [outQueue EXCEPT ![s] = @ \o r.enq]
       /\ IF outQueue[s] \o r.enq = <<>>
            THEN /\ outState' = [outState EXCEPT ![s] = "closed"]
                 /\ consumer' = [consumer EXCEPT ![s] = IF readPending[s] THEN "done" ELSE @]
                 /\ readPending' = [readPending EXCEPT ![s] = FALSE]
            ELSE UNCHANGED <<outState, consumer, readPending>>
  /\ parsers' = [parsers EXCEPT ![ParserOf(s)].buffer = <<>>]
  /\ UNCHANGED <<provider, contextInjection, request, forwarded, tags, models,
                 frames, wire, sent, pc, req, response,
                 delivered, sentinelSeen, logged, dispatched, alone>>

\* The upstream body ends: the pipe closes the writable side, and the
\* transform stream (it has no flush) closes its readable side, at once when
\* nothing is queued and else when the queue has been read.
UpstreamEnd(s) ==
  /\ pc[s] = "streaming" /\ upstream[s] = "open" /\ outState[s] = "readable"
  /\ sent[s] = Len(wire[s])
  /\ upstream' = [upstream EXCEPT ![s] = "closed"]
  /\ closeRequested' = [closeRequested EXCEPT ![s] = TRUE]
  /\ IF outQueue[s] = <<>>
       THEN /\ outState' = [outState EXCEPT ![s] = "closed"]
            /\ consumer' = [consumer EXCEPT ![s] = IF readPending[s] THEN "done" ELSE @]
            /\ readPending' = [readPending EXCEPT ![s] = FALSE]
       ELSE UNCHANGED <<outState, consumer, readPending>>
  /\ UNCHANGED <<provider, contextInjection, request, forwarded, tags, models,
                 frames, wire, sent, pc, req, response, parsers, outQueue,
                 delivered, emitted, sentinelSeen, logged, dispatched, alone>>

\* UpstreamError as a pipe that does not pass the error on would be.
UpstreamErrorNotPropagated(s) ==
  /\ pc[s] = "streaming" /\ upstream[s] = "open" /\ outState[s] = "readable"
  /\ upstream' = [upstream EXCEPT ![s] = "errored"]
  /\ UNCHANGED <<provider, contextInjection, request, forwarded, tags, models,
                 frames, wire, sent, pc, req, response, parsers, outState,
                 closeRequested, outQueue, readPending, delivered, consumer, emitted,
                 sentinelSeen, logged, dispatched, alone>>

\* The upstream body errors: the pipe aborts the writable side, which errors
\* the readable side; an errored stream drops what is queued and rejects the
\* waiting read.
UpstreamError(s) ==
  /\ pc[s] = "streaming" /\ upstream[s] = "open" /\ outState[s] = "readable"
  /\ upstream' = [upstream EXCEPT ![s] = "errored"]
  /\ outState' = [outState EXCEPT ![s] = "errored"]
  /\ outQueue' = [outQueue EXCEPT ![s] = <<>>]
  /\ consumer' = [consumer EXCEPT ![s] = IF readPending[s] THEN "error" ELSE @]
  /\ readPending' = [readPending EXCEPT ![s] = FALSE]
  /\ UNCHANGED <<provider, contextInjection, request, forwarded, tags, models,
                 frames, wire, sent, pc, req, response, parsers, closeRequested,
                 delivered, emitted, sentinelSeen, logged, dispatched, alone>>

\* The consumer of the response asks for the next chunk.
ConsumerRead(s) ==
  /\ pc[s] = "streaming" /\ consumer[s] = "reading" /\ ~readPending[s]
  /\ IF outQueue[s] # <<>>
       THEN /\ delivered' = [delivered EXCEPT ![s] = Append(@, Head(outQueue[s]))]
            /\ outQueue' = [outQueue EXCEPT ![s] = Tail(@)]
            /\ outState' = [outState EXCEPT ![s] =
                 IF closeRequested[s] /\ Len(outQueue[s]) = 1 THEN "closed" ELSE @]
            /\ UNCHANGED <<readPending, consumer>>
       ELSE /\ readPending' = [readPending EXCEPT ![s] = outState[s] = "readable"]
            /\ consumer' = [consumer EXCEPT ![s] =
                 CASE outState[s] = "closed"  -> "done"
                   [] outState[s] = "errored" -> "error"
                   [] OTHER -> @]
            /\ UNCHANGED <<delivered, outQueue, outState>>
  /\ UNCHANGED <<provider, contextInjection, request, forwarded, tags, models,
                 frames, wire, sent, pc, req, response, upstream, parsers,
                 closeRequested, emitted, sentinelSeen, logged, dispatched, alone>>

\* ConsumerCancel as a pipe made with { preventCancel: true } would be.
ConsumerCancelPreventingCancel(s) ==
  /\ pc[s] = "streaming" /\ consumer[s] = "reading"
  /\ consumer' = [consumer EXCEPT ![s] =
       CASE outState[s] = "readable" -> "cancelled"
         [] outState[s] = "errored"  -> "error"
         [] OTHER -> "done"]
  /\ readPending' = [readPending EXCEPT ![s] = FALSE]
  /\ outQueue' = [outQueue EXCEPT ![s] = <<>>]
  /\ outState' = [outState EXCEPT ![s] = IF @ = "readable" THEN "closed" ELSE @]
  /\ UNCHANGED <<provider, contextInjection, request, forwarded, tags, models,
                 frames, wire, sent, pc, req, response, upstream, parsers,
                 closeRequested, delivered, emitted, sentinelSeen, logged, dispatched, alone>>

\* The consumer of the response cancels the stream (or goes away).  Of a
\* readable stream the readable side closes and drops what is queued, the
\* writable side is errored, and the pipe, seeing its destination errored,
\* cancels the upstream body it was reading.  Cancelling a stream that has
\* closed or errored changes nothing; the consumer learns the end or the error.
ConsumerCancel(s) ==
  /\ pc[s] = "streaming" /\ consumer[s] = "reading"
  /\ consumer' = [consumer EXCEPT ![s] =
       CASE outState[s] = "readable" -> "cancelled"
         [] outState[s] = "errored"  -> "error"
         [] OTHER -> "done"]
  /\ readPending' = [readPending EXCEPT ![s] = FALSE]
  /\ outQueue' = [outQueue EXCEPT ![s] = <<>>]
  /\ outState' = [outState EXCEPT ![s] = IF @ = "readable" THEN "closed" ELSE @]
  /\ upstream' = [upstream EXCEPT ![s] =
       IF @ = "open" /\ outState[s] = "readable" THEN "cancelled" ELSE @]
  /\ UNCHANGED <<provider, contextInjection, request, forwarded, tags, models,
                 frames, wire, sent, pc, req, response, parsers,
                 closeRequested, delivered, emitted, sentinelSeen, logged, dispatched, alone>>

Next ==
  \E s \in Sessions :
    \/ Post(s)
    \/ \E n \in 1..Len(wire[s]) : Transform(s, n)
    \/ UpstreamEnd(s)
    \/ UpstreamError(s)
    \/ ConsumerRead(s)
    \/ ConsumerCancel(s)

(***************************************************************************)
(* Specifications.  They differ in the upstream bodies they start from.    *)
(***************************************************************************)
MaxFrames == 2
SeqsUpTo(S, n) == UNION { [1..k -> S] : k \in 0..n }

\* The text of the i-th frame of a body: "A", "B" with a two-byte
\* character, "C", and again.
ContentAt(i) ==
  CASE i % 3 = 1 -> <<"A">>
    [] i % 3 = 2 -> <<"B", EAcute>>
    [] OTHER     -> <<"C">>

\* The frame of kind k at position i; a data frame carries ContentAt(i) in
\* the field `response`.
FrameAt(k, i) ==
  IF k = "data" THEN DataFrame(Absent, Absent, Set(ContentAt(i)))
  ELSE Frame(k, Absent, Absent, Absent, LF)

BodyOf(kinds) == [i \in 1..Len(kinds) |-> FrameAt(kinds[i], i)]

\* seq with x put in before position i
InsertAt(seq, i, x) == SubSeq(seq, 1, i - 1) \o <<x>> \o SubSeq(seq, i, Len(seq))

\* Bodies of up to MaxFrames data frames, blank lines and sentinels, and the
\* same with one malformed data line put in anywhere.
StreamKinds ==
  LET plain == SeqsUpTo({"data", "done", "blank"}, MaxFrames)
  IN plain \cup UNION { { InsertAt(k, i, "malformed") : i \in 1..(Len(k) + 1) } : k \in plain }
StreamBodies == { BodyOf(k) : k \in StreamKinds }

NoBody == [s \in Sessions |-> <<>>]
OnlyFirst == [s \in Sessions |-> s = 1]

\* One session under the default provider, every body of StreamBodies.
Init ==
  \E body \in StreamBodies : InitWith("ollama", [NoBody EXCEPT ![1] = body], OnlyFirst)

Spec == Init /\ [][Next]_vars

\* Bodies of one frame: a data frame for every combination of the three
\* content fields, and a bare (not SSE-framed) line of the local server.
ShapeBodies ==
  { <<DataFrame(a, b, c)>> :
      a \in {Absent, Hollow, Set(<<>>), Set(<<"C">>)},
      b \in {Absent, Set(<<>>), Set(<<"B">>)},
      c \in {Absent, Hollow, Set(<<"A">>)} }
  \cup { <<Frame("bare", Absent, Set(<<"B">>), Absent, LF)>> }

\* One session under either provider, every body of ShapeBodies.
InitProviders ==
  \E prov \in Providers, body \in ShapeBodies :
    InitWith(prov, [NoBody EXCEPT ![1] = body], OnlyFirst)

SpecProviders == InitProviders /\ [][Next]_vars

\* Bodies of up to MaxLines lines: data frames ended by a newline, sentinels
\* and comments ended by a carriage return and a newline (a comment is a
\* comment in the first place, an event field in the second and a line of
\* white space in the third), and the same with the last line not ended at all.
MaxLines == 3
LineKinds == {"data", "done", "comment"}
LineAt(k, i, eol) ==
  CASE k = "data"    -> Frame("data", Absent, Absent, Set(ContentAt(i)), eol)
    [] k = "comment" -> Frame(CASE i % 3 = 1 -> "comment"
                                [] i % 3 = 2 -> "event"
                                [] OTHER     -> "blank",
                              Absent, Absent, Absent, eol)
    [] OTHER         -> Frame(k, Absent, Absent, Absent, eol)
EolOf(k) == IF k = "data" THEN LF ELSE CRLF
LineBodies ==
  { [i \in 1..Len(k) |->
       LineAt(k[i], i, IF i = Len(k) /\ open THEN <<>> ELSE EolOf(k[i]))] :
    k \in SeqsUpTo(LineKinds, MaxLines), open \in BOOLEAN }

\* One session under the default provider, every body of LineBodies.
InitLines ==
  \E body \in LineBodies : InitWith("ollama", [NoBody EXCEPT ![1] = body], OnlyFirst)

SpecLines == InitLines /\ [][Next]_vars

\* Two sessions at once, each with a data frame of its own.
InitTwo ==
  InitWith("ollama", [s \in Sessions |-> <<FrameAt("data", s)>>], [s \in Sessions |-> TRUE])

SpecTwo == InitTwo /\ [][Next]_vars

(***************************************************************************)
(* What the frames of a body are to yield.                                 *)
(***************************************************************************)
\* The first non-empty text among choices[0].delta.content, message.content
\* and response of a frame's object, <<>> when there is none.
FirstNonEmpty(f) ==
  IF f.a.st = "set" /\ f.a.text # <<>> THEN f.a.text
  ELSE IF f.b.st = "set" /\ f.b.text # <<>> THEN f.b.text
  ELSE IF f.c.st = "set" /\ f.c.text # <<>> THEN f.c.text
  ELSE <<>>

\* The deltas of the frames fs whose kind is in `kinds`, one per frame with a
\* non-empty text, in the order of the frames.
RECURSIVE DeltasOf(_, _)
DeltasOf(fs, kinds) ==
  IF fs = <<>> THEN <<>>
  ELSE (IF Head(fs).kind \in kinds /\ FirstNonEmpty(Head(fs)) # <<>>
          THEN <<Encode(FirstNonEmpty(Head(fs)))>> ELSE <<>>)
       \o DeltasOf(Tail(fs), kinds)

\* How many frames of session s have been handed to transform to their last
\* byte.
CompleteFrames(s) ==
  CHOOSE k \in 0..Len(frames[s]) :
    /\ Len(Wire(SubSeq(frames[s], 1, k))) <= sent[s]
    /\ \A j \in (k + 1)..Len(frames[s]) : Len(Wire(SubSeq(frames[s], 1, j))) > sent[s]

Received(s) == SubSeq(frames[s], 1, CompleteFrames(s))

\* Nothing but blank lines follows a sentinel.
SentinelLast(fs) ==
  \A i \in 1..Len(fs) : fs[i].kind = "done" =>
    \A j \in (i + 1)..Len(fs) : fs[j].kind = "blank"

WithoutMalformed(fs) == SelectSeq(fs, LAMBDA f : f.kind # "malformed")

\* sub is seq with some of its elements left out.
RECURSIVE IsSubSeq(_, _)
IsSubSeq(sub, seq) ==
  IF sub = <<>> THEN TRUE
  ELSE IF seq = <<>> THEN FALSE
  ELSE IF Head(sub) = Head(seq) THEN IsSubSeq(Tail(sub), Tail(seq))
  ELSE IsSubSeq(sub, Tail(seq))

Streaming(s) == pc[s] = "streaming"

(***************************************************************************)
(* Claims.                                                                 *)
(***************************************************************************)
\* C1: for a body of data frames, blank lines and a final sentinel, however
\* the bytes handed over so far were cut into chunks, the deltas enqueued and
\* the retained partial line are those of one parse call on all these bytes.
ChunkBoundaryInvariance ==
  \A s \in Sessions :
    Streaming(s) /\ SentinelLast(frames[s]) =>
      LET whole == Parse(NewParser, SubSeq(wire[s], 1, sent[s]), TRUE)
      IN /\ emitted[s] = whole.enq
         /\ parsers[ParserOf(s)].buffer = whole.buffer
         /\ parsers[ParserOf(s)].pending = whole.pending

\* C1 witness: a chunk ended inside the two-byte character of the second
\* frame, after the first frame's delta was enqueued.
ChunkCutInsideCharacter ==
  \E s \in Sessions :
    /\ Streaming(s) /\ SentinelLast(frames[s])
    /\ parsers[ParserOf(s)].pending # <<>>
    /\ parsers[ParserOf(s)].buffer # <<>>
    /\ emitted[s] = <<Encode(ContentAt(1))>>

\* C2: when the whole body has been handed over, a body with a malformed data
\* line has enqueued what one parse call enqueues for the body without that
\* line; the failure was logged and the stream is not errored by it.
MalformedFrameTolerance ==
  \A s \in Sessions :
    Streaming(s) /\ SentinelLast(frames[s]) /\ sent[s] = Len(wire[s]) =>
      /\ emitted[s] = Parse(NewParser, Wire(WithoutMalformed(frames[s])), TRUE).enq
      /\ logged[s] = Len(frames[s]) - Len(WithoutMalformed(frames[s]))
      /\ upstream[s] # "errored" => outState[s] # "errored" /\ consumer[s] # "error"

\* C2 witness: a malformed line between two data frames, both deltas out.
MalformedBetweenValidFrames ==
  \E s \in Sessions :
    /\ Streaming(s) /\ sent[s] = Len(wire[s]) /\ Len(frames[s]) = 3
    /\ frames[s][1].kind = "data" /\ frames[s][2].kind = "malformed"
    /\ frames[s][3].kind = "data"
    /\ Len(emitted[s]) = 2 /\ logged[s] = 1

\* C4: the chunks enqueued are, one per frame and in the order of the frames,
\* the texts of the data frames handed over completely, as long as no
\* sentinel has cut a call short; and they are always some of the texts of
\* the body's data frames in the body's order.
OrderedWithoutBatching ==
  \A s \in Sessions :
    Streaming(s) =>
      /\ ~sentinelSeen[s] => emitted[s] = DeltasOf(Received(s), {"data"})
      /\ IsSubSeq(emitted[s], DeltasOf(frames[s], {"data"}))

\* C4 witness: two data frames handed over, two chunks enqueued.
TwoFramesTwoChunks ==
  \E s \in Sessions :
    /\ Streaming(s) /\ ~sentinelSeen[s]
    /\ emitted[s] = <<Encode(ContentAt(1)), Encode(ContentAt(2))>>

\* C5 (as claimed): once parse has returned at a sentinel, the session
\* enqueues nothing more.
SentinelIsPermanent ==
  [][\A s \in Sessions : sentinelSeen[s] => emitted'[s] = emitted[s]]_vars

\* C6 (as claimed): the outbound stream is closed without error when the
\* upstream body has ended, and also once the sentinel has been processed.
ClosedOnEitherEnd ==
  \A s \in Sessions :
    Streaming(s) =>
      /\ upstream[s] = "closed" => closeRequested[s] /\ outState[s] # "errored"
      /\ sentinelSeen[s] => closeRequested[s]

\* C8 (as claimed): when the upstream body has errored, the consumer has
\* received every delta enqueued before the error.
AllEmittedReceivedAtError ==
  \A s \in Sessions : upstream[s] = "errored" => delivered[s] = emitted[s]

\* C8 (amended): when the upstream body has errored, the outbound stream is
\* errored and holds nothing, what the consumer has received is a prefix of
\* the deltas enqueued, unchanged and in order, and from then on nothing is
\* enqueued or received and the consumer can only come to see the error.
UpstreamErrorEndsStream ==
  /\ [](\A s \in Sessions :
          upstream[s] = "errored" =>
            /\ outState[s] = "errored" /\ outQueue[s] = <<>> /\ ~readPending[s]
            /\ IsPrefix(delivered[s], emitted[s])
            /\ consumer[s] \in {"reading", "error"})
  /\ [][\A s \in Sessions :
          upstream[s] = "errored" =>
            /\ emitted'[s] = emitted[s] /\ delivered'[s] = delivered[s]
            /\ outState'[s] = "errored"
            /\ consumer'[s] \in {consumer[s], "error"}]_vars

\* C8 witness: the upstream body errored after two deltas were enqueued, the
\* consumer had read one of them and has seen the error.
ErrorAfterTwoDeltas ==
  \E s \in Sessions :
    /\ upstream[s] = "errored" /\ consumer[s] = "error"
    /\ Len(emitted[s]) = 2 /\ Len(delivered[s]) = 1

\* C3: the delta of a data frame is the first non-empty text among
\* choices[0].delta.content, message.content and response, in this order, and
\* there is none when all three are missing or empty, under either provider.
OrderedFallbackExtraction ==
  \A s \in Sessions :
    Streaming(s) /\ sent[s] = Len(wire[s]) /\ Len(frames[s]) = 1
      /\ frames[s][1].kind = "data" =>
        LET want == FirstNonEmpty(frames[s][1])
        IN emitted[s] = IF want = <<>> THEN <<>> ELSE <<Encode(want)>>

\* C3 witness: an empty choices[0].delta.content falls through to
\* message.content, ahead of response, under the cloud gateway.
EmptyDeltaFallsThrough ==
  \E s \in Sessions :
    /\ provider = "cloudflare" /\ Streaming(s) /\ sent[s] = Len(wire[s])
    /\ frames[s] = <<DataFrame(Set(<<>>), Set(<<"B">>), Set(<<"A">>))>>
    /\ emitted[s] = <<<<"B">>>>

\* C7: a request whose upstream fetch came back with a non-success status is
\* answered with the JSON error object and status 500, whatever the provider
\* and the stream flag; no stream exists and no delta is enqueued for it.
UpstreamRejection ==
  \A s \in Sessions :
    req[s].fetched = "notok" =>
      /\ pc[s] = "responded"
      /\ response[s].kind = "json" /\ response[s].status = 500 /\ response[s].error
      /\ upstream[s] = "none" /\ outState[s] = "none"
      /\ emitted[s] = <<>> /\ delivered[s] = <<>>

\* C7 witness: a streaming request to the cloud gateway was rejected upstream.
RejectedStreamingRequest ==
  \E s \in Sessions :
    /\ provider = "cloudflare" /\ req[s].fetched = "notok" /\ req[s].stream
    /\ response[s].status = 500

\* C9 (as claimed): under the local server a line carrying
\* {message:{content:c}} yields c, bare or behind "data: ".
BareLinesYieldDeltas ==
  \A s \in Sessions :
    provider = "ollama" /\ Streaming(s) /\ sent[s] = Len(wire[s]) =>
      emitted[s] = DeltasOf(frames[s], {"data", "bare"})

\* C10: whatever the other session does in between, a session's deltas and
\* its parser's buffer and decoder state are those of the same parse calls
\* made on a parser of its own.
SessionsIndependent ==
  \A s \in Sessions :
    Streaming(s) =>
      /\ emitted[s] = alone[s].emitted
      /\ parsers[ParserOf(s)] = alone[s].parser

\* C10 witness: both sessions are in the middle of their line.
BothSessionsMidLine ==
  /\ \A s \in Sessions : Streaming(s) /\ parsers[ParserOf(s)].buffer # <<>>
  /\ parsers[ParserOf(1)].buffer # parsers[ParserOf(2)].buffer

\* C11: once the consumer has cancelled a stream in flight, the upstream body
\* is no longer open (the cancel step itself cancels an open one), nothing is
\* queued or waited for, and from then on no byte is handed to transform, no
\* chunk is enqueued or received and the parser is not touched.
CancellationStopsStream ==
  /\ [](\A s \in Sessions :
          consumer[s] = "cancelled" =>
            /\ upstream[s] \in {"cancelled", "closed"}
            /\ outState[s] = "closed" /\ outQueue[s] = <<>> /\ ~readPending[s])
  /\ [][\A s \in Sessions :
          /\ consumer[s] = "cancelled" =>
               /\ sent'[s] = sent[s] /\ emitted'[s] = emitted[s]
               /\ delivered'[s] = delivered[s] /\ upstream'[s] = upstream[s]
               /\ parsers'[ParserOf(s)] = parsers[ParserOf(s)]
               /\ consumer'[s] = "cancelled"
          /\ consumer[s] # "cancelled" /\ consumer'[s] = "cancelled" /\ upstream[s] = "open"
               => upstream'[s] = "cancelled"]_vars

\* C11 witness: the consumer cancelled after one delta, with bytes of the
\* body not yet handed over and a read waiting; the upstream body is cancelled.
CancelledInFlight ==
  \E s \in Sessions :
    /\ consumer[s] = "cancelled" /\ upstream[s] = "cancelled"
    /\ Len(emitted[s]) = 1 /\ sent[s] < Len(wire[s])
    /\ parsers[ParserOf(s)].buffer # <<>>

\* What holds the content of a non-streaming reply: data.message under the
\* local server, data.choices[0].message under the cloud gateway.
ContentHolder(body) ==
  IF provider = "ollama" THEN Prop(body, KeyMessage)
  ELSE OptProp(OptFirst(Prop(body, KeyChoices)), KeyMessage)

\* C12 (as claimed): a non-streaming request answered with success upstream
\* returns {content: X}, X read from the shapes of the streaming extractor:
\* choices[0].delta.content under the cloud gateway, message.content under
\* the local server.
NonStreamingContentFromStreamingShapes ==
  \A s \in Sessions :
    pc[s] = "responded" /\ ~req[s].stream /\ req[s].fetched = "ok" =>
      response[s] = ContentResponse(
        IF provider = "ollama"
          THEN OptProp(OptProp(req[s].body, KeyMessage), KeyContent)
          ELSE OptProp(OptProp(OptFirst(OptProp(req[s].body, KeyChoices)), KeyDelta),
                       KeyContent))

\* C12 (amended): a request that does not ask for a stream never gets one; when
\* the upstream status is success POST returns {content: X} with X the
\* content of data.message (local server) or of data.choices[0].message (cloud
\* gateway), and the error object with status 500 when the body has no such
\* message.
NonStreamingContent ==
  \A s \in Sessions :
    ~req[s].stream /\ req[s].fetched # "none" =>
      /\ pc[s] = "responded" /\ response[s].kind = "json"
      /\ upstream[s] = "none" /\ outState[s] = "none" /\ emitted[s] = <<>>
      /\ req[s].fetched = "ok" =>
           response[s] = IF Nullish(ContentHolder(req[s].body)) THEN ErrorResponse
                         ELSE ContentResponse(Prop(ContentHolder(req[s].body), KeyContent))

\* C12 witness: the cloud gateway's reply carried a delta beside its message,
\* and the content of the message was returned.
GatewayMessageReturned ==
  \E s \in Sessions :
    /\ provider = "cloudflare" /\ ~req[s].stream /\ req[s].fetched = "ok"
    /\ ~Nullish(OptProp(OptFirst(Prop(req[s].body, KeyChoices)), KeyDelta))
    /\ response[s] = ContentResponse(JStr(<<"C">>))

\* The text of the bytes handed to transform so far, and the places of its
\* newlines.
ReceivedText(s) == DecodeBytes(<<>>, SubSeq(wire[s], 1, sent[s])).text
NewlinesIn(text) == { i \in 1..Len(text) : text[i] = Newline }

\* The text the call of parse made by a step works on: what the parser had
\* kept and what the chunk adds.
TextOfCall(s) ==
  parsers[ParserOf(s)].buffer
    \o DecodeBytes(parsers[ParserOf(s)].pending, SubSeq(wire[s], sent[s] + 1, sent'[s])).text

\* The complete lines among the lines a text splits into (all but the last),
\* trimmed.
CompleteLines(lines) == [i \in 1..(Len(lines) - 1) |-> Trim(lines[i])]

\* How many of these lines come up to and including the first sentinel.
UpToSentinel(lines) ==
  LET at == { i \in 1..Len(lines) : lines[i] = DoneLine }
  IN IF at = {} THEN Len(lines) ELSE CHOOSE i \in at : \A j \in at : i <= j

\* C13 (as claimed): after every call of parse the buffer holds no newline
\* and every complete line received so far has been taken up by the loop.
EveryCompleteLineDispatched ==
  \A s \in Sessions :
    Streaming(s) =>
      /\ NewlinesIn(parsers[ParserOf(s)].buffer) = {}
      /\ dispatched[s] = Cardinality(NewlinesIn(ReceivedText(s)))

\* C13 (amended): every call of parse leaves as its buffer the text after the
\* last newline of what it had kept and what the chunk added, which holds no
\* newline; it takes up the complete lines of that text up to and including
\* the first sentinel line and drops the complete lines after it.
LineBufferHoldsNoLine ==
  [][\A s \in Sessions :
       sent'[s] # sent[s] =>
         \A text \in {TextOfCall(s)} : \A lines \in {Split(text)} :
           /\ parsers'[ParserOf(s)].buffer = lines[Len(lines)]
           /\ NewlinesIn(parsers'[ParserOf(s)].buffer) = {}
           /\ Len(lines) = Cardinality(NewlinesIn(text)) + 1
           /\ dispatched'[s] = dispatched[s] + UpToSentinel(CompleteLines(lines))]_vars

\* C13 witness: a call met the sentinel with a complete line after it and a
\* partial line at its end; the line after the sentinel was not taken up.
LineAfterSentinelDropped ==
  \E s \in Sessions :
    /\ Streaming(s) /\ sentinelSeen[s]
    /\ dispatched[s] = 1 /\ Cardinality(NewlinesIn(ReceivedText(s))) = 2
    /\ parsers[ParserOf(s)].buffer # <<>>

\* The frames of a body that end in a newline.
Terminated(fs) == SelectSeq(fs, LAMBDA f : f.eol # <<>>)

\* The text of the last frame of a body when no newline ends it.
OpenLine(fs) ==
  IF fs # <<>> /\ fs[Len(fs)].eol = <<>> THEN FrameText(fs[Len(fs)]) ELSE <<>>

\* C14: when the upstream body has ended, a last line no newline ends is still
\* in the buffer and has not been taken up: the chunks enqueued are among the
\* deltas of the lines that a newline ends, the lines taken up are no more
\* than these, the outbound stream closes without error (at once when nothing
\* is queued) and nothing is enqueued afterwards.
NoFlushOnClose ==
  /\ [](\A s \in Sessions :
          upstream[s] = "closed" =>
            /\ parsers[ParserOf(s)].buffer = OpenLine(frames[s])
            /\ IsSubSeq(emitted[s], DeltasOf(Terminated(frames[s]), {"data"}))
            /\ dispatched[s] <= Len(Terminated(frames[s]))
            /\ closeRequested[s] /\ outState[s] # "errored" /\ consumer[s] # "error"
            /\ outQueue[s] = <<>> => outState[s] = "closed")
  /\ [][\A s \in Sessions :
          upstream[s] = "closed" =>
            emitted'[s] = emitted[s] /\ parsers'[ParserOf(s)] = parsers[ParserOf(s)]]_vars

\* C14 witness: the body ended with a complete data frame that no newline
\* ends, after one that a newline ends; the stream is closed, the consumer
\* has seen the end, one delta was enqueued and the last line is in the buffer.
LastLineLeftInBuffer ==
  \E s \in Sessions :
    /\ upstream[s] = "closed" /\ outState[s] = "closed" /\ consumer[s] = "done"
    /\ Len(frames[s]) = 2 /\ frames[s][2].kind = "data" /\ frames[s][2].eol = <<>>
    /\ parsers[ParserOf(s)].buffer = FrameText(frames[s][2])
    /\ emitted[s] = <<Encode(ContentAt(1))>> /\ delivered[s] = emitted[s]

\* A line that is the sentinel with nothing but white space around it.
IsSentinelLine(line) ==
  \E i \in 1..Len(line), j \in 1..Len(line) :
    /\ SubSeq(line, i, j) = DoneLine
    /\ \A k \in (1..(i - 1)) \cup ((j + 1)..Len(line)) : line[k] \in WhiteSpace

\* C15: a call of parse whose complete lines hold a sentinel line (white space
\* around it or not) does what the loop does for the lines before the first
\* such line and no more: it enqueues their deltas, takes up these lines and
\* the sentinel, and leaves in the buffer the partial line at the end of the
\* chunk.
SentinelStopsTheCall ==
  [][\A s \in Sessions :
       sent'[s] # sent[s] =>
         \A text \in {TextOfCall(s)} : \A lines \in {Split(text)} :
           \A at \in {{ i \in 1..(Len(lines) - 1) : IsSentinelLine(lines[i]) }} :
             at # {} =>
               \A first \in {CHOOSE i \in at : \A j \in at : i <= j} :
                 \A before \in {ProcessLines(SubSeq(lines, 1, first - 1), TRUE)} :
                   /\ emitted'[s] = emitted[s] \o before.enq
                   /\ logged'[s] = logged[s] + before.logged
                   /\ dispatched'[s] = dispatched[s] + first
                   /\ sentinelSeen'[s]
                   /\ parsers'[ParserOf(s)].buffer = lines[Len(lines)]]_vars

\* C15 witness: a sentinel ended by a carriage return and a newline, a data
\* frame and the beginning of another came in one chunk: the sentinel alone
\* was taken up, nothing was enqueued and the beginning is in the buffer.
SentinelBeforeDataInOneChunk ==
  \E s \in Sessions :
    /\ Streaming(s) /\ sentinelSeen[s] /\ Len(frames[s]) = 3
    /\ frames[s][1].kind = "done" /\ frames[s][1].eol = CRLF
    /\ frames[s][2].kind = "data" /\ frames[s][3].kind = "data"
    /\ sent[s] > Len(Wire(SubSeq(frames[s], 1, 2))) /\ sent[s] < Len(wire[s])
    /\ emitted[s] = <<>> /\ dispatched[s] = 1
    /\ parsers[ParserOf(s)].buffer # <<>>

\* C16: in a body of data frames and of lines that are empty after trimming
\* or do not begin with "data: ", these lines yield nothing and disturb
\* nothing: the chunks enqueued are at every moment the deltas of the data
\* frames handed over with their newline, one per frame and in order, every
\* line handed over with its newline has been taken up, nothing was logged
\* and the stream is not errored by them.
PermissiveFrameFilter ==
  \A s \in Sessions :
    Streaming(s) /\ (\A i \in 1..Len(frames[s]) : frames[s][i].kind # "done") =>
      /\ emitted[s] = DeltasOf(Terminated(Received(s)), {"data"})
      /\ dispatched[s] = Len(Terminated(Received(s)))
      /\ logged[s] = 0
      /\ upstream[s] # "errored" => outState[s] # "errored" /\ consumer[s] # "error"

\* C16 witness: an event field between two data frames, all handed over, and
\* both deltas enqueued.
EventFieldBetweenDataFrames ==
  \E s \in Sessions :
    /\ Streaming(s) /\ sent[s] = Len(wire[s]) /\ Len(frames[s]) = 3
    /\ frames[s][1].kind = "data" /\ frames[s][2].kind = "event"
    /\ frames[s][3].kind = "data" /\ frames[s][3].eol # <<>>
    /\ emitted[s] = <<Encode(ContentAt(1)), Encode(ContentAt(3))>>
    /\ dispatched[s] = 3


(***************************************************************************)
(* Chat requests of every shape: up to MaxMessages messages, a system      *)
(* prompt that is absent, empty or given, context injection on or off,     *)
(* each provider.  The upstream body is one blank line.                    *)
(***************************************************************************)
MaxMessages == 2
RequestRoles == {"user", "assistant", "system"}
SystemPrompts == {JUndefined, JStr(<<>>), JStr(<<"S">>)}
\* The i-th message of a request says "a", "b", ...
MessageAt(role, i) == Message(role, JStr(<<ContentAt(i)>>))
ChatRequests ==
  { [messages |-> [i \in 1..Len(roles) |-> MessageAt(roles[i], i)], systemPrompt |-> prompt] :
      roles \in SeqsUpTo(RequestRoles, MaxMessages), prompt \in SystemPrompts }

InitAssembly ==
  \E prov \in Providers, injection \in BOOLEAN, asked \in ChatRequests :
    InitChat(prov, [NoBody EXCEPT ![1] = <<BlankFrame>>], OnlyFirst, injection,
             [s \in Sessions |-> asked])

SpecAssembly == InitAssembly /\ [][Next]_vars

\* The context the search service has yielded for session s, as the
\* characters it is written with; <<>> when it has yielded none.
YieldedContext(s) ==
  LET reply == req[s].search
      hits == IF reply.fetched = "ok" /\ reply.valid /\ reply.data.t = "object"
                THEN { i \in 1..Len(reply.data.kids) :
                         /\ reply.data.kids[i].k = KeyContext
                         /\ reply.data.kids[i].v.t \in {"string", "number"}
                         /\ reply.data.kids[i].v.s \notin {<<>>, <<"0">>} }
                ELSE {}
  IN IF contextInjection /\ hits # {}
       THEN reply.data.kids[CHOOSE i \in hits : TRUE].v.s
       ELSE <<>>

\* 1 when the request of session s carries a non-empty system prompt
PromptCount(s) ==
  IF request[s].systemPrompt.t = "string" /\ request[s].systemPrompt.s # <<>> THEN 1 ELSE 0
ContextCount(s) == IF YieldedContext(s) # <<>> THEN 1 ELSE 0

\* Where the i-th message of the request of session s stands upstream.
PlaceOf(s, i) ==
  i + PromptCount(s)
    + (IF i = Len(request[s].messages) THEN ContextCount(s) ELSE 0)

\* C17: the message list sent upstream holds the request's messages in their
\* order, each at its place; a non-empty systemPrompt adds one system
\* message carrying it in the first place; a non-empty injected context adds
\* one system message carrying it right before the last request message;
\* nothing else is added, so with neither the list is the request's.
MessageAssembly ==
  \A s \in Sessions :
    forwarded[s].made =>
      LET asked == request[s].messages
          out == forwarded[s].messages
      IN /\ Len(out) = Len(asked) + PromptCount(s) + ContextCount(s)
         /\ \A i \in 1..Len(asked) : out[PlaceOf(s, i)] = asked[i]
         /\ PromptCount(s) = 1 => out[1] = Message("system", request[s].systemPrompt)
         /\ ContextCount(s) = 1 =>
              /\ out[Len(out) - 1] =
                   Message("system", JStr(ContextPrefix \o YieldedContext(s)))
              /\ out[Len(out)] = asked[Len(asked)]
         /\ (PromptCount(s) = 0 /\ ContextCount(s) = 0) => out = asked

\* A request of two messages with a system prompt whose search yielded a
\* context has been sent upstream and is being streamed back.
PromptAndContextForwarded ==
  \E s \in Sessions :
    /\ pc[s] = "streaming"
    /\ forwarded[s].made
    /\ Len(request[s].messages) = 2
    /\ PromptCount(s) = 1
    /\ ContextCount(s) = 1
    /\ Len(forwarded[s].messages) = 4


(***************************************************************************)
(* GET /api/models (src/app/api/models/route.js)                           *)
(***************************************************************************)
KeyModels == <<"m", "o", "d", "e", "l", "s">>
KeyName == <<"n", "a", "m", "e">>

\* CONFIG.DEFAULT_MODELS
DefaultModels ==
  JArr(<<
      JStr(<<"@", "c", "f", "/", "d", "e", "e", "p", "s", "e", "e", "k", "-",
             "a", "i", "/", "d", "e", "e", "p", "s", "e", "e", "k", "-", "r",
             "1", "-", "d", "i", "s", "t", "i", "l", "l", "-", "q", "w", "e",
             "n", "-", "3", "2", "b">>),
      JStr(<<"@", "c", "f", "/", "m", "e", "t", "a", "/", "l", "l", "a", "m",
             "a", "-", "2", "-", "7", "b", "-", "c", "h", "a", "t", "-", "i",
             "n", "t", "8">>),
      JStr(<<"@", "c", "f", "/", "m", "i", "s", "t", "r", "a", "l", "/", "m",
             "i", "s", "t", "r", "a", "l", "-", "7", "b", "-", "i", "n", "s",
             "t", "r", "u", "c", "t", "-", "v", "0", ".", "1">>),
      JStr(<<"d", "e", "e", "p", "s", "e", "e", "k", "-", "r", "1", ":", "l",
             "a", "t", "e", "s", "t">>),
      JStr(<<"@", "c", "f", "/", "m", "e", "t", "a", "/", "l", "l", "a", "m",
             "a", "-", "3", ".", "3", "-", "7", "0", "b", "-", "i", "n", "s",
             "t", "r", "u", "c", "t", "-", "f", "p", "8", "-", "f", "a", "s",
             "t">>),
      JStr(<<"m", "i", "s", "t", "r", "a", "l", ":", "l", "a", "t", "e", "s",
             "t">>) >>)

\* NextResponse.json(list): JSON.stringify writes undefined in an array as null
Serialized(list) ==
  [t |-> "array", s |-> <<>>,
   kids |-> [i \in 1..Len(list.kids) |->
               Member(<<>>, IF list.kids[i].v.t = "undefined" THEN JNull ELSE list.kids[i].v)]]
ModelsResponse(list) == [kind |-> "json", status |-> 200, models |-> Serialized(list)]

\* data.models.map((model) => model.name): [threw, v]. A TypeError when
\* data is null, when data.models has no map (it is not an array), and when
\* an element is null.
ModelNames(data) ==
  With(Access(Value(data), KeyModels),
       LAMBDA got :
         IF got.threw \/ got.v.t # "array" THEN [threw |-> TRUE, v |-> JUndefined]
         ELSE With([i \in 1..Len(got.v.kids) |-> Access(Value(got.v.kids[i].v), KeyName)],
                   LAMBDA names :
                     IF \E i \in 1..Len(names) : names[i].threw
                       THEN [threw |-> TRUE, v |-> JUndefined]
                       ELSE Value(JArr([i \in 1..Len(names) |-> names[i].v]))))

\* ModelsTry as the try block without its response.ok check would be.
ModelsTryIgnoringStatus(reply) ==
  IF reply.fetched = "rejected" \/ ~reply.valid THEN [threw |-> TRUE, v |-> JUndefined]
  ELSE ModelNames(reply.data)

\* The try block of the ollama branch: [threw, v]. A rejected fetch, the
\* throw on !response.ok and a body response.json() cannot parse all throw.
ModelsTry(reply) ==
  IF reply.fetched # "ok" \/ ~reply.valid THEN [threw |-> TRUE, v |-> JUndefined]
  ELSE ModelNames(reply.data)

\* What /api/tags may answer: up to MaxModels entries, each with a name,
\* without one, with a null or empty name, a string or null; a models member that is
\* no array or is missing; a body that is no object.
MaxModels == 2
TagEntries ==
  { JObj(<<Member(KeyName, JStr(<<"m">>))>>),
    JObj(<<Member(KeyName, JStr(<<"n">>))>>),
    JObj(<<Member(KeyRole, JStr(<<"a">>))>>),
    JObj(<<Member(KeyName, JNull)>>),
    JObj(<<Member(KeyName, JStr(<<>>))>>),
    JStr(<<"m">>),
    JNull }
TagsData ==
  { JObj(<<Member(KeyModels, JArr(entries))>>) : entries \in SeqsUpTo(TagEntries, MaxModels) }
  \cup { JObj(<<Member(KeyModels, v)>>) :
           v \in {JNull, JStr(<<"m">>), JObj(<<Member(KeyName, JStr(<<"m">>))>>)} }
  \cup { JObj(<<Member(KeyRole, JStr(<<"a">>))>>), JNull, JStr(<<"m">>) }
TagsReplies ==
  { Reply("rejected", FALSE, JUndefined), Reply("notok", FALSE, JUndefined),
    Reply("ok", FALSE, JUndefined) }
  \cup { Reply(fetched, TRUE, data) : fetched \in {"ok", "notok"}, data \in TagsData }

\* One call of GET.
GetModels ==
  /\ models = NoModels
  /\ IF provider = "ollama"
       THEN \E reply \in TagsReplies :
              /\ tags' = reply
              /\ models' = With(ModelsTry(reply),
                                LAMBDA r : ModelsResponse(IF r.threw THEN DefaultModels ELSE r.v))
       ELSE /\ tags' = NoReply
            /\ models' = ModelsResponse(DefaultModels)
  /\ UNCHANGED <<provider, contextInjection, request, forwarded,
                 frames, wire, sent, pc, req, response, upstream, parsers, outState,
                 closeRequested, outQueue, readPending, delivered, consumer, emitted,
                 sentinelSeen, logged, dispatched, alone>>

NextModels == GetModels

NoSession == [s \in Sessions |-> FALSE]
InitModels == \E prov \in Providers : InitWith(prov, NoBody, NoSession)

SpecModels == InitModels /\ [][NextModels]_vars

\* The body /api/tags has answered with is an object whose models member is
\* an array without a null entry.
UsableModels(data) ==
  /\ data.t = "object"
  /\ \E i \in 1..Len(data.kids) :
       /\ data.kids[i].k = KeyModels
       /\ data.kids[i].v.t = "array"
       /\ \A j \in 1..Len(data.kids[i].v.kids) : data.kids[i].v.kids[j].v.t # "null"
TagsFailed == tags.fetched # "ok" \/ ~tags.valid \/ ~UsableModels(tags.data)

\* The value of member key of the object v, null when it has none.
NamedOrNull(v, key) ==
  IF v.t = "object" /\ \E i \in 1..Len(v.kids) : v.kids[i].k = key
    THEN v.kids[CHOOSE i \in 1..Len(v.kids) : v.kids[i].k = key].v
    ELSE JNull

\* C18: GET /api/models always answers 200 with a JSON array; with a
\* provider other than ollama the array is CONFIG.DEFAULT_MODELS and no
\* upstream is contacted; with ollama, when the call of /api/tags is
\* rejected, answers a non-success status, or answers a body without a
\* usable models array, the array is CONFIG.DEFAULT_MODELS; otherwise it is
\* the name of every entry, null for an entry without one.
ModelListNeverFails ==
  models # NoModels =>
    /\ models.kind = "json" /\ models.status = 200 /\ models.models.t = "array"
    /\ provider # "ollama" => (models.models = DefaultModels /\ tags = NoReply)
    /\ (provider = "ollama" /\ TagsFailed) => models.models = DefaultModels
    /\ (provider = "ollama" /\ ~TagsFailed) =>
         LET listed == Prop(tags.data, KeyModels).kids
         IN /\ Len(models.models.kids) = Len(listed)
            /\ \A i \in 1..Len(listed) :
                 models.models.kids[i].v = NamedOrNull(listed[i].v, KeyName)

\* /api/tags answered a non-success status with a body that lists a model,
\* and GET returned the default models.
DefaultsAfterRefusedTags ==
  /\ provider = "ollama"
  /\ tags.fetched = "notok" /\ tags.valid
  /\ UsableModels(tags.data) /\ Prop(tags.data, KeyModels).kids # <<>>
  /\ models # NoModels
  /\ models.models = DefaultModels


(***************************************************************************)
(* parse on its own: createParser(textDecoder, controller) with a          *)
(* controller whose stream is readable, closed or errored, fed a body of   *)
(* data lines whose payloads are an object with a text, an object without  *)
(* one, null, a number, a string, an array, and malformed text.            *)
(***************************************************************************)
MaxPayloads == 2
PayloadKinds == {"content", "empty", "null", "number", "text", "array", "malformed"}
PayloadAt(k, i) ==
  CASE k = "content" -> Frame("data", Absent, Absent, Set(ContentAt(i)), LF)
    [] k = "empty"   -> Frame("data", Absent, Absent, Absent, LF)
    [] OTHER         -> Frame(k, Absent, Absent, Absent, LF)
PayloadBodies ==
  { [i \in 1..Len(k) |-> PayloadAt(k[i], i)] : k \in SeqsUpTo(PayloadKinds, MaxPayloads) }

\* createParser(textDecoder, controller)
CreateParser(s) ==
  /\ pc[s] = "absent" /\ frames[s] # <<>>
  /\ pc' = [pc EXCEPT ![s] = "parsing"]
  /\ parsers' = [parsers EXCEPT ![ParserOf(s)] = NewParser]
  /\ \E state \in {"readable", "closed", "errored"} :
       outState' = [outState EXCEPT ![s] = state]
  /\ UNCHANGED <<provider, contextInjection, request, forwarded, tags, models,
                 frames, wire, sent, req, response, upstream,
                 closeRequested, outQueue, readPending, delivered, consumer, emitted,
                 sentinelSeen, logged, dispatched, alone>>

\* parse(chunk) for the next n bytes; controller.enqueue throws unless the
\* stream is readable.
ParseCall(s, n) ==
  /\ pc[s] = "parsing"
  /\ sent[s] + n <= Len(wire[s])
  /\ \E r \in {Parse(parsers[ParserOf(s)], SubSeq(wire[s], sent[s] + 1, sent[s] + n),
                     outState[s] = "readable")} :
       /\ parsers' = [parsers EXCEPT ![ParserOf(s)] =
                        [buffer |-> r.buffer, pending |-> r.pending]]
       /\ sent' = [sent EXCEPT ![s] = sent[s] + n]
       /\ emitted' = [emitted EXCEPT ![s] = emitted[s] \o r.enq]
       /\ sentinelSeen' = [sentinelSeen EXCEPT ![s] = sentinelSeen[s] \/ r.done]
       /\ logged' = [logged EXCEPT ![s] = logged[s] + r.logged]
       /\ dispatched' = [dispatched EXCEPT ![s] = dispatched[s] + r.seen]
       /\ pc' = [pc EXCEPT ![s] = IF r.escaped THEN "threw" ELSE "parsing"]
  /\ UNCHANGED <<provider, contextInjection, request, forwarded, tags, models,
                 frames, wire, req, response, upstream, outState,
                 closeRequested, outQueue, readPending, delivered, consumer,
                 alone>>

NextParse ==
  \E s \in Sessions :
    \/ CreateParser(s)
    \/ \E n \in 1..Len(wire[s]) : ParseCall(s, n)

InitParse ==
  \E body \in PayloadBodies : InitWith("ollama", [NoBody EXCEPT ![1] = body], NoSession)

SpecParse == InitParse /\ [][NextParse]_vars

\* The payload of frame f makes the try block throw before it reaches enqueue.
ThrowsBeforeEnqueue(f) == f.kind \in {"null", "malformed"}
\* The payload of frame f makes the try block call enqueue.
ReachesEnqueue(f) == f.kind = "data" /\ f.c.st = "set" /\ f.c.text # <<>>
HowMany(fs, Test(_)) == Cardinality({ i \in 1..Len(fs) : Test(fs[i]) })

\* C19: whatever the payloads of the data lines handed to parse, and whether
\* or not controller.enqueue throws, no exception leaves parse; every
\* complete line is taken up, the lines after a failing one included; a line
\* whose payload has a text gives one chunk when enqueue works and one
\* logged error when it throws; a payload that is null or malformed gives
\* one logged error; any other payload gives nothing.
ParseCatchesEverything ==
  \A s \in Sessions :
    pc[s] \in {"parsing", "threw"} =>
      /\ pc[s] # "threw"
      /\ dispatched[s] = CompleteFrames(s)
      /\ emitted[s] = IF outState[s] = "readable"
                        THEN DeltasOf(Received(s), {"data"}) ELSE <<>>
      /\ Len(emitted[s]) <= HowMany(Received(s), ReachesEnqueue)
      /\ logged[s] = HowMany(Received(s), ThrowsBeforeEnqueue)
                     + (IF outState[s] = "readable" THEN 0
                        ELSE HowMany(Received(s), ReachesEnqueue))

\* The stream was closed, the first line's enqueue threw, and parse went on
\* to the null payload of the second line, which threw as well.
EnqueueThrewAndParseWentOn ==
  \E s \in Sessions :
    /\ pc[s] = "parsing"
    /\ outState[s] = "closed"
    /\ Len(frames[s]) = 2
    /\ ReachesEnqueue(frames[s][1])
    /\ frames[s][2].kind = "null"
    /\ sent[s] = Len(wire[s])
    /\ logged[s] = 2
    /\ dispatched[s] = 2
    /\ emitted[s] = <<>>


\* The semantic-search call of session s was made and failed: the fetch was
\* rejected, the status was no success, the body could not be parsed, or
\* the body is no object with a context member.
SearchFailed(s) ==
  LET reply == req[s].search
  IN /\ contextInjection
     /\ reply # NoReply
     /\ \/ reply.fetched # "ok"
        \/ ~reply.valid
        \/ reply.data.t # "object"
        \/ \A i \in 1..Len(reply.data.kids) : reply.data.kids[i].k # KeyContext

\* What is sent upstream for the request of session s when context
\* injection is disabled.
SentWithoutInjection(s) ==
  IF PromptCount(s) = 1
    THEN <<Message("system", request[s].systemPrompt)>> \o request[s].messages
    ELSE request[s].messages

\* C20: when the semantic-search call fails, the chat request goes on to the
\* provider with the messages it would send with context injection
\* disabled, none of them a context message, and an upstream that answers
\* with success is passed on: a streamed answer as a stream, a JSON answer
\* that holds a message as a content response.
SearchFailureIsHarmless ==
  \A s \in Sessions :
    SearchFailed(s) =>
      /\ forwarded[s].made
      /\ forwarded[s].messages = SentWithoutInjection(s)
      /\ \A i \in 1..Len(forwarded[s].messages) :
           ~IsPrefix(ContextPrefix, JsToString(forwarded[s].messages[i].content))
      /\ req[s].fetched \in FetchOutcomes
      /\ (req[s].fetched = "ok" /\ req[s].stream) =>
           (pc[s] = "streaming" /\ response[s] = StreamResponse)
      /\ (req[s].fetched = "ok" /\ ~req[s].stream
            /\ ~Nullish(ContentHolder(req[s].body))) =>
           (pc[s] = "responded" /\ ~response[s].error)

\* The search service answered a non-success status; the two messages of
\* the request went upstream as they were and the answer is being streamed.
SearchRefusedAndStreaming ==
  \E s \in Sessions :
    /\ SearchFailed(s)
    /\ req[s].search.fetched = "notok"
    /\ pc[s] = "streaming"
    /\ Len(request[s].messages) = 2
    /\ forwarded[s].messages = request[s].messages

=============================================================================
